---- MODULE Spec2Model ----
(***************************************************************************)
(* PoseTrainer log receiver (src/tools/log_receiver.py): an HTTPServer     *)
(* whose handler LogReceiver renders POSTed JSON log records on the        *)
(* console.  The model follows one accepted connection through the         *)
(* handler, one step per I/O operation (body read, console print, socket   *)
(* write), together with the client side (connect, connection reset) and   *)
(* the operator's interrupt.                                               *)
(*                                                                         *)
(* Text is modelled as sequences of one-character strings so that          *)
(* upper(), slicing, padding and concatenation are computed, not assumed.  *)
(***************************************************************************)
EXTENDS Naturals, Sequences, FiniteSets, TLC

\* ------------------------------------------------------------------ bounds
\* Connections a client may open in the wide-input specification Spec.
MaxConns == 1
\* Connections clients may open in the sequencing specification SpecSeq.
MaxClients == 3

\* ------------------------------------------------------------- text helpers
Lower == <<"a","b","c","d","e","f","g","h","i","j","k","l","m",
           "n","o","p","q","r","s","t","u","v","w","x","y","z">>
UpperL == <<"A","B","C","D","E","F","G","H","I","J","K","L","M",
            "N","O","P","Q","R","S","T","U","V","W","X","Y","Z">>

\* str.upper() on one character.
UpperChar(ch) ==
    IF \E i \in 1..Len(Lower) : Lower[i] = ch
    THEN UpperL[CHOOSE i \in 1..Len(Lower) : Lower[i] = ch]
    ELSE ch

\* str.upper()
Upper(s) == [i \in 1..Len(s) |-> UpperChar(s[i])]

\* Python s[a:b] for 0 <= a <= b (indices from 0, end exclusive, clipped).
Slice(s, a, b) == SubSeq(s, a + 1, IF Len(s) < b THEN Len(s) ELSE b)

\* Width of the level column in the format spec {level:7}.
LevelWidth == 7

\* f"{level:7}": left-justified, padded with spaces, never truncated.
Pad(s) ==
    IF Len(s) >= LevelWidth THEN s
    ELSE s \o [i \in 1..(LevelWidth - Len(s)) |-> " "]

\* A lone surrogate code point (JSON escape \ud800), which json.loads
\* accepts and which no console encoding can encode.
SURR == "\\ud800"

\* print() encodes the text for the console; a lone surrogate makes it raise
\* UnicodeEncodeError before anything is written.
Encodable(s) == \A i \in 1..Len(s) : s[i] # SURR

\* ------------------------------------------------------------- JSON values
\* A decoded JSON value: its Python type and its str() text.
Absent == [t |-> "absent", v |-> <<>>]
StrVal(s) == [t |-> "str", v |-> s]
Num5 == [t |-> "num", v |-> <<"5">>]
NaNVal == [t |-> "num", v |-> <<"n","a","n">>]
Null == [t |-> "null", v |-> <<"N","o","n","e">>]
EmptyList == [t |-> "list", v |-> <<"[","]">>]

\* Python truthiness of a decoded value.
Truthy(x) ==
    CASE x.t = "str" -> Len(x.v) > 0
      [] x.t = "num" -> TRUE
      [] OTHER -> FALSE

IsoStamp == <<"2","0","2","4","-","0","5","-","0","1","T",
              "1","2",":","3","4",":","5","6",".","7","8","9">>
ShortStamp == <<"1","2",":","3","4">>
\* datetime.now().isoformat() as read by the receiver.
NowIso == <<"2","0","2","6","-","1","1","-","0","2","T",
            "0","9",":","3","0",":","0","0",".","1","2","3","4","5","6">>

S_INFO == <<"I","N","F","O">>
S_error == <<"e","r","r","o","r">>
S_trace == <<"t","r","a","c","e">>
S_Warning == <<"W","a","r","n","i","n","g">>
S_diskfull == <<"d","i","s","k"," ","f","u","l","l">>
S_io == <<"i","o">>
S_ENOSPC == <<"E","N","O","S","P","C">>
S_cut == <<"c","u","t",SURR>>

Fields == {"timestamp", "level", "message", "tag", "error"}

\* ------------------------------------------------------------------ colours
ResetColor == <<"ESC[0m">>

\* colors.get(level, '')
Color(level) ==
    CASE level = <<"D","E","B","U","G">> -> <<"ESC[37m">>
      [] level = S_INFO -> <<"ESC[36m">>
      [] level = <<"W","A","R","N","I","N","G">> -> <<"ESC[33m">>
      [] level = <<"E","R","R","O","R">> -> <<"ESC[31m">>
      [] OTHER -> <<>>

\* ------------------------------------------------------------ request bodies
AllAbsent == [k \in Fields |-> Absent]

\* A request body as the decoder sees it: whether the bytes are UTF-8,
\* whether the text is JSON ("json"), text outside JSON that json.loads
\* still accepts, such as a NaN literal ("pyjson"), or neither ("invalid"),
\* the type of the top-level value, and the members of an object.
ObjBody(f) == [enc |-> "utf8", syntax |-> "json", top |-> "object", f |-> f]
NoBody == [enc |-> "utf8", syntax |-> "invalid", top |-> "none", f |-> AllAbsent]
BadUtf8 == [enc |-> "bad", syntax |-> "invalid", top |-> "none", f |-> AllAbsent]
NotJson == [enc |-> "utf8", syntax |-> "invalid", top |-> "text", f |-> AllAbsent]
TopArray == [enc |-> "utf8", syntax |-> "json", top |-> "array", f |-> AllAbsent]
TopString == [enc |-> "utf8", syntax |-> "json", top |-> "string", f |-> AllAbsent]
TopNumber == [enc |-> "utf8", syntax |-> "json", top |-> "number", f |-> AllAbsent]
NaNBody ==
    [enc |-> "utf8", syntax |-> "pyjson", top |-> "object",
     f |-> [AllAbsent EXCEPT !["message"] = NaNVal]]

Canon ==
    [k \in Fields |->
        CASE k = "timestamp" -> StrVal(IsoStamp)
          [] k = "level" -> StrVal(S_error)
          [] k = "message" -> StrVal(S_diskfull)
          [] k = "tag" -> StrVal(S_io)
          [] k = "error" -> StrVal(S_ENOSPC)]

\* Every subset of the five fields, each present field a string.
SubsetBodies ==
    {ObjBody([k \in Fields |-> IF k \in P THEN Canon[k] ELSE Absent]) :
        P \in SUBSET Fields}

WrongTyped == {Num5, Null, EmptyList}

Variants(k) ==
    WrongTyped \cup
    CASE k = "timestamp" -> {StrVal(ShortStamp)}
      [] k = "level" -> {StrVal(S_trace), StrVal(S_Warning)}
      [] k = "message" -> {StrVal(S_cut)}
      [] k = "tag" -> {StrVal(<<>>)}
      [] k = "error" -> {StrVal(<<>>), StrVal(S_cut)}

\* Objects with one member of a varied value, alone or beside the others.
OneFieldBodies ==
    UNION {{ObjBody([base EXCEPT ![k] = w]) :
                w \in Variants(k), base \in {AllAbsent, Canon}} : k \in Fields}

Bodies ==
    SubsetBodies \cup OneFieldBodies \cup
    {NaNBody, BadUtf8, NotJson, TopArray, TopString, TopNumber}

Methods == {"POST", "OPTIONS", "GET", "PUT", "DELETE"}
Paths == {"/logs", "/", "/unknown"}

Req(m, p, cl, b) == [method |-> m, path |-> p, cl |-> cl, body |-> b]
NoReq == Req("", "", "missing", NoBody)

\* The requests of the wide-input specification.
Requests ==
    {Req("POST", "/logs", "ok", b) : b \in Bodies}
    \cup {Req("POST", "/logs", cl, NoBody) : cl \in {"missing", "nonnumeric"}}
    \cup {Req(m, p, x[1], x[2]) :
            m \in Methods, p \in Paths,
            x \in {<<"missing", NoBody>>, <<"ok", ObjBody(AllAbsent)>>}}

\* The requests of the sequencing specification.
FewRequests ==
    {Req("POST", "/logs", "ok", ObjBody(AllAbsent)),
     Req("POST", "/logs", "ok", ObjBody(Canon)),
     Req("POST", "/logs", "ok", NotJson),
     Req("POST", "/logs", "missing", NoBody),
     Req("POST", "/logs", "nonnumeric", NoBody),
     Req("GET", "/unknown", "missing", NoBody),
     Req("GET", "/", "missing", NoBody),
     Req("OPTIONS", "/logs", "missing", NoBody),
     Req("PUT", "/logs", "ok", ObjBody(AllAbsent))}

\* -------------------------------------------------------------- the decoder
\* The handler's locals after lines 27-49, or the exception raised there.
NoLocals ==
    [ok |-> FALSE, exc |-> "none", timestamp |-> Absent, level |-> <<>>,
     message |-> Absent, tag |-> Absent, error |-> Absent,
     log_line |-> <<>>, error_line |-> <<>>]

Raised(e) == [NoLocals EXCEPT !.exc = e]

\* Mutant of Get: a member of the wrong type is treated as absent.
GetTyped(f, k, default) == IF f[k].t = "str" THEN f[k] ELSE default

\* dict.get(key, default)
Get(f, k, default) == IF f[k].t = "absent" THEN default ELSE f[k]

\* timestamp[11:19]: a str is sliced, a list is sliced (the empty list
\* stays empty), any other type raises TypeError.
TimeStr(ts) == IF ts.t = "str" THEN Slice(ts.v, 11, 19) ELSE ts.v

Indent == <<" "," "," "," "," "," "," "," "," ">>

Format(ts, lv, message, tag, error) ==
    LET level == Upper(lv.v)
        color == Color(level)
        tag_str == IF Truthy(tag) THEN <<"[">> \o tag.v \o <<"]", " ">> ELSE <<>>
    IN [ok |-> TRUE, exc |-> "none", timestamp |-> ts, level |-> level,
        message |-> message, tag |-> tag, error |-> error,
        log_line |-> TimeStr(ts) \o <<" ">> \o color \o Pad(level)
                     \o ResetColor \o <<" ">> \o tag_str \o message.v,
        error_line |-> Indent \o color \o <<"E","R","R","O","R",":">>
                       \o ResetColor \o <<" ">> \o error.v]

\* Mutant of Decode: a decoded value that is no object is read as an empty
\* record instead of raising.
DecodeAnyValue(body) ==
    IF body.enc # "utf8" THEN Raised("UnicodeDecodeError")
    ELSE IF body.syntax = "invalid" THEN Raised("JSONDecodeError")
    ELSE Format(StrVal(NowIso), StrVal(S_INFO), StrVal(<<>>), StrVal(<<>>),
                StrVal(<<>>))

Decode(body) ==
    IF body.enc # "utf8" THEN Raised("UnicodeDecodeError")
    ELSE IF body.syntax = "invalid" THEN Raised("JSONDecodeError")
    ELSE IF body.top # "object" THEN Raised("AttributeError")
    ELSE LET ts == Get(body.f, "timestamp", StrVal(NowIso))
             lv == Get(body.f, "level", StrVal(S_INFO))
             message == Get(body.f, "message", StrVal(<<>>))
             tag == Get(body.f, "tag", StrVal(<<>>))
             error == Get(body.f, "error", StrVal(<<>>))
         IN IF lv.t # "str" THEN Raised("AttributeError")
            ELSE IF ts.t \notin {"str", "list"} THEN Raised("TypeError")
            ELSE Format(ts, lv, message, tag, error)

\* ---------------------------------------------------------------- responses
Status(code) == [k |-> "status", a |-> code, b |-> ""]
Hdr(name, value) == [k |-> "header", a |-> name, b |-> value]
EndHeaders == [k |-> "end", a |-> "", b |-> ""]
Body(data, arg) == [k |-> "body", a |-> data, b |-> arg]

\* send_response(code): the status line and the two standard headers.
SendResponse(code) == <<Status(code), Hdr("Server", "auto"), Hdr("Date", "auto")>>

Ok200 ==
    SendResponse("200") \o
    <<Hdr("Content-type", "text/plain"),
      Hdr("Access-Control-Allow-Origin", "*"), EndHeaders>>
Bad400 == SendResponse("400") \o <<EndHeaders>>
NotFound404 == SendResponse("404") \o <<EndHeaders>>
\* Mutant of Preflight200: the Allow-Headers line is missing.
PreflightNoAllowHeaders ==
    SendResponse("200") \o
    <<Hdr("Access-Control-Allow-Origin", "*"),
      Hdr("Access-Control-Allow-Methods", "POST, OPTIONS"), EndHeaders>>

Preflight200 ==
    SendResponse("200") \o
    <<Hdr("Access-Control-Allow-Origin", "*"),
      Hdr("Access-Control-Allow-Methods", "POST, OPTIONS"),
      Hdr("Access-Control-Allow-Headers", "Content-Type"), EndHeaders>>
Page200 == SendResponse("200") \o <<Hdr("Content-type", "text/html"), EndHeaders>>
Unsupported501 ==
    SendResponse("501") \o
    <<Hdr("Connection", "close"), Hdr("Content-Type", "text/html;charset=utf-8"),
      Hdr("Content-Length", "auto"), EndHeaders>>

\* -------------------------------------------------------------------- state
VARIABLES
    server,    \* "listening" | "stopped": main's serve_forever loop
    conn,      \* per connection: "idle" | "queued" | "handling" | "closed" | "aborted"
    req,       \* the request parsed on the connection
    pc,        \* the handler's position
    loc,       \* do_POST's locals (the decoded record, or the exception caught)
    hdrbuf,    \* _headers_buffer: response lines not yet written
    wire,      \* what the socket carried to the client
    calls,     \* the codes send_response was called with
    broken,    \* the peer reset the connection
    failedIO,  \* a read or a write on the socket raised in this handler
    console,   \* standard output, line by line
    errlog     \* connections whose handler raised into handle_error

vars == <<server, conn, req, pc, loc, hdrbuf, wire, calls, broken, failedIO,
          console, errlog>>

Line(c, kind, text) == [conn |-> c, kind |-> kind, text |-> text]

InitFor(n) ==
    /\ server = "listening"
    /\ conn = [c \in 1..n |-> "idle"]
    /\ req = [c \in 1..n |-> NoReq]
    /\ pc = [c \in 1..n |-> "none"]
    /\ loc = [c \in 1..n |-> NoLocals]
    /\ hdrbuf = [c \in 1..n |-> <<>>]
    /\ wire = [c \in 1..n |-> <<>>]
    /\ calls = [c \in 1..n |-> <<>>]
    /\ broken = [c \in 1..n |-> FALSE]
    /\ failedIO = [c \in 1..n |-> FALSE]
    /\ console = <<>>
    /\ errlog = {}

Init == InitFor(MaxConns)
InitSeq == InitFor(MaxClients)

Conns == DOMAIN conn

\* The handler of connection c is running and sits at position p.
At(c, p) == server = "listening" /\ conn[c] = "handling" /\ pc[c] = p

\* --------------------------------------------------------------- the client
\* A client opens a connection; it waits in the listen queue.  Connections
\* are numbered in the order they arrive.
ClientConnect(c) ==
    /\ server = "listening"
    /\ conn[c] = "idle"
    /\ \A d \in Conns : d < c => conn[d] # "idle"
    /\ conn' = [conn EXCEPT ![c] = "queued"]
    /\ UNCHANGED <<server, req, pc, loc, hdrbuf, wire, calls, broken, failedIO,
                   console, errlog>>

\* The peer resets the connection while its request is being handled.
ConnReset(c) ==
    /\ server = "listening"
    /\ conn[c] = "handling"
    /\ pc[c] \notin {"finish", "raised"}
    /\ ~broken[c]
    /\ broken' = [broken EXCEPT ![c] = TRUE]
    /\ UNCHANGED <<server, conn, req, pc, loc, hdrbuf, wire, calls, failedIO,
                   console, errlog>>

\* --------------------------------------------------------------- the server
\* Mutant of CanAccept: a threading server, one handler per connection.
CanAcceptAlways == TRUE

\* HTTPServer handles one request at a time: serve_forever accepts the next
\* connection only when no handler is running.
CanAccept == \A d \in Conns : conn[d] # "handling"

\* serve_forever accepts the connection at the head of the listen queue and
\* the handler parses the request line and headers.
Accept(c, r) ==
    /\ server = "listening"
    /\ CanAccept
    /\ conn[c] = "queued"
    /\ \A d \in Conns : d < c => conn[d] # "queued"
    /\ conn' = [conn EXCEPT ![c] = "handling"]
    /\ req' = [req EXCEPT ![c] = r]
    /\ pc' = [pc EXCEPT ![c] = "dispatch"]
    /\ UNCHANGED <<server, loc, hdrbuf, wire, calls, broken, failedIO,
                   console, errlog>>

\* send_response(code), the send_header calls and end_headers(): the lines
\* are buffered and flushed in one write.  The
\* buffer is emptied only after the write returned.  `next` is where the
\* handler goes on, `fail` where a raised write takes it.
Flush(c, code, lines, next, fail) ==
    /\ calls' = [calls EXCEPT ![c] = Append(@, code)]
    /\ IF broken[c]
       THEN /\ hdrbuf' = [hdrbuf EXCEPT ![c] = @ \o lines]
            /\ failedIO' = [failedIO EXCEPT ![c] = TRUE]
            /\ pc' = [pc EXCEPT ![c] = fail]
            /\ UNCHANGED wire
       ELSE /\ wire' = [wire EXCEPT ![c] = @ \o hdrbuf[c] \o lines]
            /\ hdrbuf' = [hdrbuf EXCEPT ![c] = <<>>]
            /\ pc' = [pc EXCEPT ![c] = next]
            /\ UNCHANGED failedIO

\* wfile.write(body)
Write(c, body, next, fail) ==
    IF broken[c]
    THEN /\ failedIO' = [failedIO EXCEPT ![c] = TRUE]
         /\ pc' = [pc EXCEPT ![c] = fail]
         /\ UNCHANGED wire
    ELSE /\ wire' = [wire EXCEPT ![c] = Append(@, body)]
         /\ pc' = [pc EXCEPT ![c] = next]
         /\ UNCHANGED failedIO

\* Where a failure inside do_POST's try block lands.
OnError == "except"

\* do_POST, lines 22-49: route, read the body, decode and format.
do_POST(c) ==
    /\ At(c, "dispatch")
    /\ req[c].method = "POST"
    /\ IF req[c].path # "/logs"
       THEN /\ Flush(c, "404", NotFound404, "finish", "raised")
            /\ UNCHANGED loc
       ELSE /\ UNCHANGED <<hdrbuf, wire, calls>>
            /\ IF req[c].cl = "missing"
               THEN /\ loc' = [loc EXCEPT ![c] = Raised("TypeError")]
                    /\ pc' = [pc EXCEPT ![c] = OnError]
                    /\ UNCHANGED failedIO
               ELSE IF req[c].cl = "nonnumeric"
               THEN /\ loc' = [loc EXCEPT ![c] = Raised("ValueError")]
                    /\ pc' = [pc EXCEPT ![c] = OnError]
                    /\ UNCHANGED failedIO
               ELSE \E got \in IF broken[c] THEN {"data", "reset"} ELSE {"data"} :
                    IF got = "reset"
                    THEN /\ loc' = [loc EXCEPT ![c] = Raised("ConnectionResetError")]
                         /\ failedIO' = [failedIO EXCEPT ![c] = TRUE]
                         /\ pc' = [pc EXCEPT ![c] = OnError]
                    ELSE /\ loc' = [loc EXCEPT ![c] = Decode(req[c].body)]
                         /\ pc' = [pc EXCEPT ![c] =
                                     IF Decode(req[c].body).ok THEN "print" ELSE OnError]
                         /\ UNCHANGED failedIO
    /\ UNCHANGED <<server, conn, req, broken, console, errlog>>

\* Line 51: print(log_line).
PrintLogLine(c) ==
    /\ At(c, "print")
    /\ IF Encodable(loc[c].log_line)
       THEN /\ console' = Append(console, Line(c, "primary", loc[c].log_line))
            /\ pc' = [pc EXCEPT ![c] =
                        IF Truthy(loc[c].error) THEN "printerr" ELSE "respond"]
            /\ UNCHANGED loc
       ELSE /\ loc' = [loc EXCEPT ![c].exc = "UnicodeEncodeError"]
            /\ pc' = [pc EXCEPT ![c] = OnError]
            /\ UNCHANGED console
    /\ UNCHANGED <<server, conn, req, hdrbuf, wire, calls, broken, failedIO, errlog>>

\* Lines 53-54: the indented ERROR: line.
PrintErrorLine(c) ==
    /\ At(c, "printerr")
    /\ IF Encodable(loc[c].error_line)
       THEN /\ console' = Append(console, Line(c, "error", loc[c].error_line))
            /\ pc' = [pc EXCEPT ![c] = "respond"]
            /\ UNCHANGED loc
       ELSE /\ loc' = [loc EXCEPT ![c].exc = "UnicodeEncodeError"]
            /\ pc' = [pc EXCEPT ![c] = OnError]
            /\ UNCHANGED console
    /\ UNCHANGED <<server, conn, req, hdrbuf, wire, calls, broken, failedIO, errlog>>

\* Lines 56-59: the 200 status line and headers.
SendOK(c) ==
    /\ At(c, "respond")
    /\ Flush(c, "200", Ok200, "body", OnError)
    /\ loc' = [loc EXCEPT ![c].exc = IF broken[c] THEN "BrokenPipeError" ELSE @]
    /\ UNCHANGED <<server, conn, req, broken, console, errlog>>

\* Line 60: wfile.write(b'OK').
WriteOK(c) ==
    /\ At(c, "body")
    /\ Write(c, Body("OK", ""), "finish", OnError)
    /\ loc' = [loc EXCEPT ![c].exc = IF broken[c] THEN "BrokenPipeError" ELSE @]
    /\ UNCHANGED <<server, conn, req, hdrbuf, calls, broken, console, errlog>>

\* Lines 62-63: except Exception: print the operator's note.
ExceptNote(c) ==
    /\ At(c, "except")
    /\ console' = Append(console, Line(c, "note", <<"Error processing log: ", loc[c].exc>>))
    /\ pc' = [pc EXCEPT ![c] = "send400"]
    /\ UNCHANGED <<server, conn, req, loc, hdrbuf, wire, calls, broken, failedIO, errlog>>

\* Lines 64-65: send_response(400); end_headers().
Send400(c) ==
    /\ At(c, "send400")
    /\ Flush(c, "400", Bad400, "finish", "raised")
    /\ UNCHANGED <<server, conn, req, loc, broken, console, errlog>>

\* do_OPTIONS, lines 70-76: no path test, no body read.
do_OPTIONS(c) ==
    /\ At(c, "dispatch")
    /\ req[c].method = "OPTIONS"
    /\ Flush(c, "200", Preflight200, "finish", "raised")
    /\ UNCHANGED <<server, conn, req, loc, broken, console, errlog>>

\* get_local_ip(): the address of the outgoing interface, or the loopback.
LocalIps == {"lan", "127.0.0.1"}

\* Mutant of do_GET: the path test is missing, every GET gets the page.
do_GET_AnyPath(c) ==
    /\ At(c, "dispatch")
    /\ req[c].method = "GET"
    /\ Flush(c, "200", Page200, "page", "raised")
    /\ UNCHANGED <<server, conn, req, loc, broken, console, errlog>>

\* do_GET, lines 78-100: the status page at "/", 404 elsewhere.
do_GET(c) ==
    /\ At(c, "dispatch")
    /\ req[c].method = "GET"
    /\ IF req[c].path = "/"
       THEN Flush(c, "200", Page200, "page", "raised")
       ELSE Flush(c, "404", NotFound404, "finish", "raised")
    /\ UNCHANGED <<server, conn, req, loc, broken, console, errlog>>

\* Line 97: wfile.write(response.encode()).
WritePage(c) ==
    /\ At(c, "page")
    /\ \E ip \in LocalIps : Write(c, Body("statuspage", ip), "finish", "raised")
    /\ UNCHANGED <<server, conn, req, loc, hdrbuf, calls, broken, console, errlog>>

\* The methods LogReceiver defines; for any other the base handler answers
\* 501 through send_error.
Handled == {"POST", "OPTIONS", "GET"}

Unsupported(c) ==
    /\ At(c, "dispatch")
    /\ req[c].method \notin Handled
    /\ Flush(c, "501", Unsupported501, "errbody", "raised")
    /\ UNCHANGED <<server, conn, req, loc, broken, console, errlog>>

WriteErrorBody(c) ==
    /\ At(c, "errbody")
    /\ Write(c, Body("errorpage", "501"), "finish", "raised")
    /\ UNCHANGED <<server, conn, req, loc, hdrbuf, calls, broken, console, errlog>>

\* Mutant of AfterRaise: the exception leaves serve_forever.
AfterRaiseCrash == "stopped"

\* What the server does with an exception that leaves the handler:
\* handle_error reports it and the loop goes on.
AfterRaise == "listening"

\* The handler returned or raised: the server shuts the connection down and
\* goes back to its loop; the handler object and its locals are dropped.
Finish(c) ==
    /\ server = "listening"
    /\ conn[c] = "handling"
    /\ pc[c] \in {"finish", "raised"}
    /\ errlog' = IF pc[c] = "raised" THEN errlog \cup {c} ELSE errlog
    /\ server' = IF pc[c] = "raised" THEN AfterRaise ELSE server
    /\ conn' = [conn EXCEPT ![c] = "closed"]
    /\ pc' = [pc EXCEPT ![c] = "none"]
    /\ req' = [req EXCEPT ![c] = NoReq]
    /\ loc' = [loc EXCEPT ![c] = NoLocals]
    /\ hdrbuf' = [hdrbuf EXCEPT ![c] = <<>>]
    /\ wire' = [wire EXCEPT ![c] = <<>>]
    /\ calls' = [calls EXCEPT ![c] = <<>>]
    /\ broken' = [broken EXCEPT ![c] = FALSE]
    /\ failedIO' = [failedIO EXCEPT ![c] = FALSE]
    /\ UNCHANGED console

\* Mutant of OnInterrupt: the handler is left to run on.
OnInterruptKeep(st) == st

\* What KeyboardInterrupt does to a connection: the one being handled is
\* shut down where its handler stands; the others are untouched.
OnInterrupt(st) == IF st = "handling" THEN "aborted" ELSE st

\* Lines 137-141: KeyboardInterrupt leaves serve_forever, from the select
\* loop or from inside a running handler (it is no Exception, so neither
\* do_POST's except clause nor handle_error stops it).
Interrupt ==
    /\ server = "listening"
    /\ server' = "stopped"
    /\ conn' = [c \in Conns |-> OnInterrupt(conn[c])]
    /\ console' = Append(console, Line(0, "stopped", <<"Server stopped">>))
    /\ UNCHANGED <<req, pc, loc, hdrbuf, wire, calls, broken, failedIO, errlog>>

NextFor(reqs) ==
    \/ \E c \in Conns : ClientConnect(c)
    \/ \E c \in Conns : ConnReset(c)
    \/ \E c \in Conns, r \in reqs : Accept(c, r)
    \/ \E c \in Conns : do_POST(c)
    \/ \E c \in Conns : PrintLogLine(c)
    \/ \E c \in Conns : PrintErrorLine(c)
    \/ \E c \in Conns : SendOK(c)
    \/ \E c \in Conns : WriteOK(c)
    \/ \E c \in Conns : ExceptNote(c)
    \/ \E c \in Conns : Send400(c)
    \/ \E c \in Conns : do_OPTIONS(c)
    \/ \E c \in Conns : do_GET(c)
    \/ \E c \in Conns : WritePage(c)
    \/ \E c \in Conns : Unsupported(c)
    \/ \E c \in Conns : WriteErrorBody(c)
    \/ \E c \in Conns : Finish(c)
    \/ Interrupt

Next == NextFor(Requests)
NextSeq == NextFor(FewRequests)

Spec == Init /\ [][Next]_vars
SpecSeq == InitSeq /\ [][NextSeq]_vars

\* ============================================================== properties
\* The handler of c has returned ("finish") or raised ("raised"); the server
\* has not yet shut the connection down.
Done(c) == conn[c] = "handling" /\ pc[c] \in {"finish", "raised"}

IsPostLogs(c) == req[c].method = "POST" /\ req[c].path = "/logs"

\* The body was read: POST /logs with a numeric Content-Length.
BodyRead(c) == IsPostLogs(c) /\ req[c].cl = "ok" /\ loc[c].exc # "ConnectionResetError"

\* The console lines of c's record (primary and ERROR: line).
RecordLines(c) ==
    Cardinality({i \in 1..Len(console) :
        console[i].conn = c /\ console[i].kind \in {"primary", "error"}})

\* The status the client received on c, "" when none arrived.
Answered(c) ==
    IF \E i \in 1..Len(wire[c]) : wire[c][i].k = "status"
    THEN wire[c][CHOOSE i \in 1..Len(wire[c]) :
             /\ wire[c][i].k = "status"
             /\ \A j \in 1..(i - 1) : wire[c][j].k # "status"].a
    ELSE ""

HasHeader(c, name, value) ==
    \E i \in 1..Len(wire[c]) : wire[c][i] = Hdr(name, value)

\* The body bytes the client received on c.
BodyOnWire(c) == SelectSeq(wire[c], LAMBDA x : x.k = "body")

IsObject(b) == b.enc = "utf8" /\ b.syntax # "invalid" /\ b.top = "object"

\* A JSON object whose present members are all strings.
StringFields(b) ==
    /\ IsObject(b) /\ b.syntax = "json"
    /\ \A k \in Fields : b.f[k].t \in {"absent", "str"}

Default(k) ==
    CASE k = "timestamp" -> StrVal(NowIso)
      [] k = "level" -> StrVal(S_INFO)
      [] OTHER -> StrVal(<<>>)

\* The member k of the decoded record.
Member(c, k) ==
    CASE k = "message" -> loc[c].message
      [] k = "tag" -> loc[c].tag
      [] k = "error" -> loc[c].error
      [] k = "timestamp" -> loc[c].timestamp

\* u is s in upper case.
IsUpperOf(u, s) ==
    /\ Len(u) = Len(s)
    /\ \A i \in 1..Len(s) :
          /\ \A n \in 1..Len(Lower) : u[i] # Lower[n]
          /\ \/ u[i] = s[i]
             \/ \E n \in 1..Len(Lower) : s[i] = Lower[n] /\ u[i] = UpperL[n]

\* The accepted record holds every member as given, the default where the
\* member is absent, and the level in upper case.
TakesDefaults(c) ==
    /\ loc[c].ok
    /\ \A k \in Fields \ {"level"} :
          Member(c, k) =
              IF req[c].body.f[k].t = "absent" THEN Default(k) ELSE req[c].body.f[k]
    /\ IF req[c].body.f["level"].t = "absent"
       THEN loc[c].level = S_INFO
       ELSE IsUpperOf(loc[c].level, req[c].body.f["level"].v)

Answered200OK(c) ==
    /\ Answered(c) = "200"
    /\ BodyOnWire(c) = <<Body("OK", "")>>
    /\ HasHeader(c, "Access-Control-Allow-Origin", "*")

Answered400Empty(c) ==
    /\ Answered(c) = "400"
    /\ BodyOnWire(c) = <<>>

\* C1 (as claimed): every POST /logs whose body is a JSON object holding any
\* subset of the five fields, each a string, decodes with the defaults for
\* the absent fields and is answered 200 with body OK and
\* Access-Control-Allow-Origin: *.
C1_AcceptsEveryStringObject ==
    \A c \in Conns :
        (Done(c) /\ ~broken[c] /\ BodyRead(c) /\ StringFields(req[c].body))
            => (TakesDefaults(c) /\ Answered200OK(c))

\* With every text printable the claim holds: the record is decoded with
\* its defaults and answered 200.
PrintableObjectAccepted ==
    \A c \in Conns :
        (Done(c) /\ ~broken[c] /\ BodyRead(c) /\ StringFields(req[c].body)
            /\ \A k \in Fields : Encodable(req[c].body.f[k].v))
            => (TakesDefaults(c) /\ Answered200OK(c))

\* The wrong-typed members of a JSON object.
WrongFields(b) == {k \in Fields : b.f[k].t \notin {"absent", "str"}}

\* Every text the handler prints for this body can be encoded.
Printable(b) == \A k \in Fields : Encodable(b.f[k].v)

Raising(b) ==
    \/ b.f["level"].t \notin {"absent", "str"}
    \/ b.f["timestamp"].t \notin {"absent", "str", "list"}

C3_RejectsAllNonJson ==
    \A c \in Conns :
        (Done(c) /\ ~broken[c] /\ BodyRead(c)
            /\ (req[c].body.enc # "utf8" \/ req[c].body.syntax # "json"
                \/ req[c].body.top # "object"))
            => (Answered400Empty(c) /\ RecordLines(c) = 0)

\* C3 (amended): a POST /logs body that is not UTF-8, that json.loads
\* rejects, or that decodes to something other than an object is answered
\* 400 with an empty body, and only the operator's note is printed.
C3_RejectsUndecodable ==
    \A c \in Conns :
        (Done(c) /\ BodyRead(c) /\ ~IsObject(req[c].body))
            => /\ ~loc[c].ok
               /\ RecordLines(c) = 0
               /\ calls[c] = <<"400">>
               /\ \E i \in 1..Len(console) :
                     console[i].conn = c /\ console[i].kind = "note"
               /\ (~broken[c] => Answered400Empty(c))

\* C3 witness: the body `not json`, a top-level array and undecodable bytes
\* each reach the 400 (one of them in the state at hand).
C3_Witness ==
    \E c \in Conns :
        /\ Done(c) /\ BodyRead(c) /\ ~broken[c]
        /\ req[c].body \in {NotJson, TopArray, BadUtf8}
        /\ Answered400Empty(c)

RouteTable == {<<"POST", "/logs">>, <<"OPTIONS", "/logs">>, <<"GET", "/">>}

C5_PreflightAlways200 ==
    \A c \in Conns :
        (Done(c) /\ req[c].method = "OPTIONS" /\ req[c].path = "/logs")
            => /\ calls[c] = <<"200">>
               /\ loc[c] = NoLocals
               /\ \A i \in 1..Len(console) : console[i].conn # c
               /\ ~broken[c] =>
                    /\ Answered(c) = "200"
                    /\ HasHeader(c, "Access-Control-Allow-Origin", "*")
                    /\ HasHeader(c, "Access-Control-Allow-Methods", "POST, OPTIONS")
                    /\ HasHeader(c, "Access-Control-Allow-Headers", "Content-Type")
                    /\ BodyOnWire(c) = <<>>

\* C5 witness: an OPTIONS /logs that carried a body was answered 200.
C5_Witness ==
    \E c \in Conns :
        /\ Done(c) /\ ~broken[c]
        /\ req[c].method = "OPTIONS" /\ req[c].path = "/logs" /\ req[c].cl = "ok"
        /\ Answered(c) = "200"
        /\ HasHeader(c, "Access-Control-Allow-Headers", "Content-Type")

\* The receiver was interrupted: main printed its farewell line.
Interrupted ==
    \E i \in 1..Len(console) : console[i].kind = "stopped"

\* The handler of c ended in an error: the except clause printed its note,
\* or the exception reached handle_error.
Failed(c) ==
    \/ c \in errlog
    \/ \E i \in 1..Len(console) : console[i].conn = c /\ console[i].kind = "note"

\* C6: no request, however malformed, stops the server: it leaves the
\* listening state only on the operator's interrupt, and a well-formed
\* POST /logs is answered 200 whatever came before it.
C6_ErrorsContained ==
    /\ server = "stopped" => Interrupted
    /\ \A c \in Conns :
          (Done(c) /\ ~broken[c] /\ BodyRead(c) /\ StringFields(req[c].body)
              /\ Printable(req[c].body))
              => Answered200OK(c)

\* C6 witness: every earlier connection failed and was closed, the server
\* accepted the last one and answered its well-formed POST with 200.
C6_Witness ==
    \E d \in Conns :
        /\ d = Cardinality(Conns) /\ d > 1
        /\ \A c \in 1..(d - 1) : conn[c] = "closed" /\ Failed(c)
        /\ errlog # {}
        /\ server = "listening"
        /\ Done(d) /\ IsPostLogs(d) /\ Answered200OK(d)

IsRecordLine(l) == l.kind \in {"primary", "error"}

\* C7: between the primary line and the ERROR: line of one record the
\* console holds no line of another record.
C7_RecordLinesNotInterleaved ==
    \A i, j \in 1..Len(console) :
        (/\ i < j
         /\ console[i].kind = "primary" /\ console[j].kind = "error"
         /\ console[i].conn = console[j].conn)
            => \A k \in (i + 1)..(j - 1) :
                  ~(IsRecordLine(console[k]) /\ console[k].conn # console[i].conn)

\* C7 witness: the console holds a two-line record, its ERROR: line right
\* after its primary line, and a record line of another connection.
C7_Witness ==
    \E i, j \in 1..Len(console) :
        /\ j = i + 1
        /\ console[i].kind = "primary" /\ console[j].kind = "error"
        /\ console[i].conn = console[j].conn
        /\ \E k \in 1..Len(console) :
              IsRecordLine(console[k]) /\ console[k].conn # console[i].conn

TransportErrors == {"ConnectionResetError", "BrokenPipeError"}

\* C9 (as claimed): after a read or a write on the socket failed, the
\* handler sends no 400, and it never starts a second status line once it
\* has started a 200.
C9_NoResponseAfterTransportError ==
    \A c \in Conns :
        /\ loc[c].exc \in TransportErrors =>
              \A i \in 1..Len(calls[c]) : calls[c][i] # "400"
        /\ (calls[c] # <<>> /\ calls[c][1] = "200") => Len(calls[c]) = 1

\* The record lines an accepted record writes: two with a non-empty error,
\* one otherwise.
ExpectedLines(c) == IF Truthy(loc[c].error) THEN 2 ELSE 1

\* C10 (as claimed): a POST /logs writes record lines exactly when it is
\* answered 200, all of them before the response: one line, or two with a
\* non-empty error; a request answered 400 has written none.
C10_LinesIffAccepted ==
    \A c \in Conns :
        (conn[c] = "handling" /\ IsPostLogs(c) /\ ~broken[c])
            => /\ Answered(c) = "200" => RecordLines(c) = ExpectedLines(c)
               /\ Answered(c) = "400" => RecordLines(c) = 0
               /\ Done(c) => (RecordLines(c) > 0 <=> Answered(c) = "200")

\* With every text printable the record lines and the 200 go together.
PrintableLinesIffAccepted ==
    \A c \in Conns :
        (conn[c] = "handling" /\ IsPostLogs(c) /\ ~broken[c]
            /\ Printable(req[c].body))
            => /\ Answered(c) = "200" => RecordLines(c) = ExpectedLines(c)
               /\ Answered(c) = "400" => RecordLines(c) = 0
               /\ Done(c) => (RecordLines(c) > 0 <=> Answered(c) = "200")

====
